---- MODULE Spec2Model ----
(***************************************************************************)
(* Scheduling and actuation engine of main/plant_water.c: the cron table   *)
(* cron_specs, the two FreeRTOS queues, the timer callback pumpTimerCb,    *)
(* the pump runner task and the HTTP handlers that feed the queues.        *)
(*                                                                         *)
(* Three execution contexts interleave freely: the httpd task (handlers),  *)
(* the timer service task (pumpTimerCb) and the pump runner task.  A timer *)
(* callback is one step, the pump runner takes one step per queue call,    *)
(* hardware write or delay, runPumps one step per send, and the cron query *)
(* one step per slot it reads.                                             *)
(***************************************************************************)
EXTENDS Integers, Sequences, FiniteSets, TLC

(***************************************************************************)
(* Program constants.                                                      *)
(***************************************************************************)
MAX_CRON_SPECS == 5

PUMP_ON == 1

PUMP_OFF == 2

\* plant_water.h: the duty written for "on"; any non-zero value.
LEDC_DUTY == 8191

\* FreeRTOS port macro used by make_delay (milliseconds per tick).
portTICK_PERIOD_MS == 10

INT_MAX == 2147483647

(***************************************************************************)
(* Bounds of the model.                                                    *)
(***************************************************************************)
\* Capacity of both queues (plant_water.h; the value is not in the source).
PUMP_EV_NUM == 2

\* POST /add_cron requests in a behaviour of Spec.
MaxSubmits == 2

\* Requests other than /add_cron (POST /pumps_on, GET /cron_data) in a
\* behaviour of SpecRuns.
MaxTriggers == 2

\* Calendar days the wall clock runs through in a behaviour of SpecCalendar.
MaxDays == 3

\* Cron specs sent beyond the capacity of the table in a behaviour of SpecEvict.
MaxExtra == 1

\* Sends on pumpEventsHandle that are followed to their service in SpecLive
\* (two of runPumps and one of the only entry on the only day).
MaxSends == 3

Slots == 0 .. (MAX_CRON_SPECS - 1)

(***************************************************************************)
(* Wall clock.  `now` is the value of time(): a sample day and a sample    *)
(* time of day; localtime_r turns it into the fields pumpTimerCb reads.    *)
(* Sample day k is the 1st or the 2nd of month k \div 2, so that two       *)
(* different calendar days can share a day-of-month number.                *)
(***************************************************************************)
TimesOfDay ==
    << [tm_hour |-> 0, tm_min |-> 0],
       [tm_hour |-> 7, tm_min |-> 30],
       [tm_hour |-> 7, tm_min |-> 31] >>

localtime_r(t) ==
    [tm_mon  |-> t.day \div 2,
     tm_mday |-> 1 + (t.day % 2),
     tm_hour |-> TimesOfDay[t.tod].tm_hour,
     tm_min  |-> TimesOfDay[t.tod].tm_min,
     day     |-> t.day]

Later(t, u) == u.day > t.day \/ (u.day = t.day /\ u.tod > t.tod)

(***************************************************************************)
(* JSON values as cJSON presents them to the handlers.                     *)
(***************************************************************************)
Num(n) == [t |-> "num", v |-> n]

Str == [t |-> "str", v |-> 0]

Absent == [t |-> "null", v |-> 0]

cJSON_IsNumber(item) == item.t = "num"

cJSON_IsObject(json) == json.kind = "object"

CronObject(p, s, d, h, m) ==
    [kind |-> "object",
     pump_num |-> p, state |-> s, pump_on_time |-> d, hour |-> h, minute |-> m]

RunObject(a, b) == [kind |-> "object", pump_1 |-> a, pump_2 |-> b]

NotJson == [kind |-> "nojson"]

(***************************************************************************)
(* struct cron_t, struct event_t.                                          *)
(***************************************************************************)
ZeroCron ==
    [pump_num |-> 0, state |-> 0, pump_on_time |-> 0, hour |-> 0, minute |-> 0,
     last_ran_day |-> 0, last_ran_minute |-> 0, last_ran_hour |-> 0]

Config(c) ==
    [pump_num |-> c.pump_num, state |-> c.state, pump_on_time |-> c.pump_on_time,
     hour |-> c.hour, minute |-> c.minute]

NoMessage == [pump_1 |-> 0, pump_2 |-> 0, pump_delay |-> 0, id |-> 0]

(***************************************************************************)
(* make_delay: (1000*seconds) / portTICK_PERIOD_MS.  The product is an int,*)
(* the divisor an unsigned 32-bit TickType_t, so the product is converted  *)
(* to unsigned before the division; the quotient is stored in the int      *)
(* pump_delay.  2^32 is written as 2*INT_MAX + 2.                          *)
(***************************************************************************)
U32Div(x, p) ==
    IF x >= 0
    THEN x \div p
    ELSE 2 * (INT_MAX \div p) + ((2 * (INT_MAX % p) + 2 + x) \div p)

\* The int product 1000*seconds as the 32-bit multiply of the target leaves
\* it: the low 32 bits of the exact product, read as a two's complement int
\* (the exact product when that fits an int).  Computed on 16-bit halves.
Mul1000(seconds) ==
    LET lo   == 1000 * (seconds % 65536)
        high == ((lo \div 65536) + 1000 * ((seconds \div 65536) % 65536)) % 65536
    IN  (IF high >= 32768 THEN high - 65536 ELSE high) * 65536 + (lo % 65536)

make_delay(seconds) == U32Div(Mul1000(seconds), portTICK_PERIOD_MS)

(***************************************************************************)
(* parse_cron_data.                                                        *)
(***************************************************************************)
parse_cron_data(json) ==
    IF /\ cJSON_IsObject(json)
       /\ cJSON_IsNumber(json.pump_num)
       /\ cJSON_IsNumber(json.state)
       /\ cJSON_IsNumber(json.pump_on_time)
       /\ cJSON_IsNumber(json.hour)
       /\ cJSON_IsNumber(json.minute)
    THEN [pump_num |-> json.pump_num.v, state |-> json.state.v,
          pump_on_time |-> json.pump_on_time.v,
          hour |-> json.hour.v, minute |-> json.minute.v,
          last_ran_day |-> -1, last_ran_minute |-> -1, last_ran_hour |-> -1]
    ELSE ZeroCron

(***************************************************************************)
(* xQueueSend with xTicksToWait = 0: the item is copied to the back of the *)
(* queue when there is room, and errQUEUE_FULL is returned at once when    *)
(* there is none.                                                          *)
(***************************************************************************)
QueueFull(q) == Len(q) >= PUMP_EV_NUM

\* Mutant: a full queue gives up its oldest item to take the new one.
xQueueSend_mut(q, item) == IF QueueFull(q) THEN Append(Tail(q), item) ELSE Append(q, item)

xQueueSend(q, item) == IF QueueFull(q) THEN q ELSE Append(q, item)

(***************************************************************************)
(* set_pump and the three pump helpers, one hardware write at a time.      *)
(***************************************************************************)
set_pump(d, pump_num, state) ==
    [d EXCEPT ![pump_num] = IF state = 1 THEN LEDC_DUTY ELSE 0]

pump_one_on_1(d) == set_pump(d, 0, 1)

pump_one_on_2(d) == set_pump(d, 1, 0)

pump_two_on_1(d) == set_pump(d, 0, 0)

pump_two_on_2(d) == set_pump(d, 1, 1)

\* Mutant: the first write of pumps_off goes to pump 1, pump 0 is left as it is.
pumps_off_1_mut(d) == set_pump(d, 1, 0)

pumps_off_1(d) == set_pump(d, 0, 0)

\* Mutant: the second write of pumps_off repeats the first, pump 1 is left as it is.
pumps_off_2_mut(d) == set_pump(d, 0, 0)

pumps_off_2(d) == set_pump(d, 1, 0)

(***************************************************************************)
(* Request bodies the HTTP client may send.                                *)
(***************************************************************************)
CronBodies ==
    { CronObject(Num(0), Num(1), Num(2), Num(7), Num(30)),
      CronObject(Num(1), Num(1), Num(3), Num(7), Num(30)),
      CronObject(Num(0), Num(1), Num(2), Num(7), Absent),
      CronObject(Num(0), Num(1), Str, Num(7), Num(30)),
      [kind |-> "array"],
      NotJson }

\* The n-th valid cron request of a client that fills the table: each differs
\* from the others in pump_on_time, and all are due at 18:00, later in the day
\* than the clock gets.
FillBody(n) == CronObject(Num(n % 2), Num(1), Num(n), Num(18), Num(0))

\* The n-th valid cron request of a client that fills the table and then
\* replaces the entry of slot 0: the requests that go to slot 0 are due at
\* 07:31, the others at 18:00.
ReplaceBody(n) ==
    IF n % MAX_CRON_SPECS = 1
    THEN CronObject(Num(n % 2), Num(1), Num(n), Num(7), Num(31))
    ELSE FillBody(n)

\* The n-th cron request of a client whose entries are all due at 07:30.
TwinBody(n) == CronObject(Num(n % 2), Num(1), Num(n + 1), Num(7), Num(30))

\* Valid cron requests due at 07:30, for pump numbers in and out of {0, 1}
\* and both values of state.
PumpBodies ==
    { CronObject(Num(p), Num(st), Num(2), Num(7), Num(30)) :
         p \in {-1, 0, 1, 2}, st \in {0, 1} }

\* Valid cron requests due at 07:30 with a pump_on_time of zero, below zero,
\* small, and so large that 1000*seconds passes 2^32 (4294968000 leaves 704,
\* 536870912000 leaves 0).
DelayBodies ==
    { CronObject(Num(0), Num(1), Num(d), Num(7), Num(30)) :
         d \in {0, -1, 2, 4294968, 536870912} }

\* Run-now requests with small and with very large durations.
DelayRunBodies ==
    { RunObject(Num(1), Num(2)),
      RunObject(Num(4294968), Num(1)),
      RunObject(Num(1), Num(536870912)) }

RunBodies ==
    { RunObject(Num(1), Num(2)),
      RunObject(Num(2), Num(1)),
      RunObject(Num(1), Num(0)),
      RunObject(Num(0), Num(1)),
      RunObject(Num(-1), Num(2)),
      RunObject(Num(1), Absent),
      RunObject(Str, Num(1)),
      [kind |-> "array"],
      NotJson }

VARIABLES
    env,             \* what the client and the clock may do (fixed at start):
                     \* cronBodies[n], the bodies of the /add_cron request made
                     \* when n are still to come; runBodies; days and tods of the clock
    now,             \* wall clock, the value of time()
    cron_specs,      \* static struct cron_t cron_specs[MAX_CRON_SPECS]
    next_cron_spec,  \* static int next_cron_spec of pumpTimerCb
    pumpEvents,      \* contents of the queue pumpEventsHandle
    timerEvents,     \* contents of the queue timerEventsHandle
    duty,            \* LEDC duty of channels 0 and 1
    task_pc,         \* pumpRunnerTaskFunction: position
    pumpMessage,     \* pumpRunnerTaskFunction: struct event_t pumpMessage
    http_pc,         \* httpd task: "idle", "send2" inside runPumps, or "query"
                     \* inside get_cron_data_handler
    delay2,          \* runPumps: its second argument, while inside runPumps
    resp,            \* get_cron_data_handler: the items of cron_specs_j so far
    submitsLeft,     \* /add_cron requests still to come
    triggersLeft,    \* /pumps_on and /cron_data requests still to come
    sendLog,         \* history: every xQueueSend on pumpEventsHandle
    serviced,        \* history: ids of the messages the pump runner received
    applied,         \* history: the cron specs pumpTimerCb stored, in order
    fired,           \* history per slot: days its entry sent a message
    skipped,         \* history per slot: days its entry was skipped as already run
    inserts,         \* history: for each stored cron spec, what its callback found
    seen,            \* history: the values cron_specs has had during the query
    lastRun          \* history: body of the latest /pumps_on request

vars ==
    << env, now, cron_specs, next_cron_spec, pumpEvents, timerEvents, duty,
       task_pc, pumpMessage, http_pc, delay2, resp,
       submitsLeft, triggersLeft, sendLog, serviced, applied, fired, skipped,
       inserts, seen, lastRun >>

storeVars == << cron_specs, next_cron_spec, applied, fired, skipped, inserts >>

taskVars == << task_pc, pumpMessage, duty, serviced >>

httpVars == << http_pc, delay2, resp, submitsLeft, triggersLeft, lastRun >>

InitWith(e, submits, triggers) ==
    /\ env = e
    /\ now = [day |-> 0, tod |-> CHOOSE t \in e.tods : \A u \in e.tods : t <= u]
    /\ cron_specs = [s \in Slots |-> ZeroCron]
    /\ next_cron_spec = 0
    /\ pumpEvents = << >>
    /\ timerEvents = << >>
    /\ duty = [p \in {0, 1} |-> 0]
    /\ task_pc = "delay"
    /\ pumpMessage = NoMessage
    /\ http_pc = "idle"
    /\ delay2 = 0
    /\ resp = << >>
    /\ submitsLeft = submits
    /\ triggersLeft = triggers
    /\ sendLog = << >>
    /\ serviced = << >>
    /\ applied = << >>
    /\ fired = [s \in Slots |-> << >>]
    /\ skipped = [s \in Slots |-> {}]
    /\ inserts = << >>
    /\ seen = {}
    /\ lastRun = NotJson

\* The queue and the pumps: one day around 07:30, several cron requests of any
\* kind and one run-now request of any kind.
Init ==
    InitWith([cronBodies |-> [n \in 1 .. MaxSubmits |-> CronBodies],
              runBodies |-> RunBodies, days |-> 1, tods |-> {2, 3}],
             MaxSubmits, 1)

\* Run-now: one day around 07:30, one cron request and several run-now requests.
InitRuns ==
    InitWith([cronBodies |-> [n \in {1} |-> CronBodies],
              runBodies |-> RunBodies, days |-> 1, tods |-> {2, 3}],
             1, MaxTriggers)

\* The calendar: several days, one cron request and one run-now request.
InitCalendar ==
    InitWith([cronBodies |-> [n \in {1} |-> CronBodies],
              runBodies |-> {RunObject(Num(1), Num(2))},
              days |-> MaxDays, tods |-> {2, 3}],
             1, 1)

\* The table: more valid cron specs than it has slots.
InitEvict ==
    InitWith([cronBodies |-> [n \in 1 .. (MAX_CRON_SPECS + MaxExtra) |->
                                {FillBody(MAX_CRON_SPECS + MaxExtra + 1 - n)}],
              runBodies |-> {RunObject(Num(1), Num(2))},
              days |-> 1, tods |-> {2, 3}],
             MAX_CRON_SPECS + MaxExtra, 1)

\* The table filled, and the entry of slot 0 replaced by one more cron spec.
InitReplace ==
    InitWith([cronBodies |-> [n \in 1 .. (MAX_CRON_SPECS + 1) |->
                                {ReplaceBody(MAX_CRON_SPECS + 2 - n)}],
              runBodies |-> {RunObject(Num(1), Num(2))},
              days |-> 1, tods |-> {2, 3}],
             MAX_CRON_SPECS + 1, 1)

\* Midnight: the clock starts at 00:00 and goes on to 07:30; one cron request
\* of any kind and one run-now request.
InitMidnight ==
    InitWith([cronBodies |-> [n \in {1} |-> CronBodies],
              runBodies |-> {RunObject(Num(1), Num(2))},
              days |-> 1, tods |-> {1, 2}],
             1, 1)

\* The durations: one valid cron request and one run-now request, of any
\* duration an int can hold.
InitDelays ==
    InitWith([cronBodies |-> [n \in {1} |-> DelayBodies],
              runBodies |-> DelayRunBodies,
              days |-> 1, tods |-> {2, 3}],
             1, 1)

\* Several entries due at the same minute, over several days.
InitTwins ==
    InitWith([cronBodies |-> [n \in 1 .. MaxSubmits |-> {TwinBody(n)}],
              runBodies |-> {RunObject(Num(1), Num(2))},
              days |-> MaxDays, tods |-> {2}],
             MaxSubmits, 1)

\* The pump number and the state of an entry: one valid cron request of any
\* pump number, one run-now request.
InitPumps ==
    InitWith([cronBodies |-> [n \in {1} |-> PumpBodies],
              runBodies |-> {RunObject(Num(1), Num(2))},
              days |-> 1, tods |-> {2, 3}],
             1, 1)

(***************************************************************************)
(* A send on pumpEventsHandle, with its record in the history.  The id of  *)
(* a message is its position in sendLog; room says whether the queue had   *)
(* a free place when the send was made.  ch is the pair of the queue and   *)
(* the history.                                                            *)
(***************************************************************************)
SendPumpEvent(ch, message, by, slot) ==
    LET m == [message EXCEPT !.id = Len(ch.log) + 1]
    IN  [q   |-> xQueueSend(ch.q, m),
         log |-> Append(ch.log, [by |-> by, slot |-> slot, msg |-> m,
                                 room |-> ~QueueFull(ch.q)])]

Channel == [q |-> pumpEvents, log |-> sendLog]

SetChannel(ch) == pumpEvents' = ch.q /\ sendLog' = ch.log

(***************************************************************************)
(* add_cron_handler: parse the body; when it is JSON at all, send the      *)
(* result of parse_cron_data on timerEventsHandle.                         *)
(***************************************************************************)
\* Mutant: on a full queue the oldest waiting cron spec makes way for the new one.
add_cron_send_mut(q, json) ==
    IF json.kind # "nojson" THEN xQueueSend_mut(q, parse_cron_data(json)) ELSE q

add_cron_send(q, json) ==
    IF json.kind # "nojson" THEN xQueueSend(q, parse_cron_data(json)) ELSE q

add_cron_handler(body) ==
    /\ http_pc = "idle"
    /\ submitsLeft > 0
    /\ submitsLeft' = submitsLeft - 1
    /\ timerEvents' = add_cron_send(timerEvents, body)
    /\ UNCHANGED << env, now, pumpEvents, sendLog, storeVars, taskVars,
                    http_pc, delay2, resp, seen, triggersLeft, lastRun >>

(***************************************************************************)
(* pumps_on_handler and runPumps.  The handler calls runPumps only when    *)
(* both durations are numbers above zero; runPumps makes two sends, and    *)
(* the httpd task can be preempted between them.                           *)
(***************************************************************************)
\* Mutant: one positive duration is enough (|| for &&).
pumps_on_accepts_mut(json) ==
    /\ cJSON_IsObject(json)
    /\ cJSON_IsNumber(json.pump_1)
    /\ cJSON_IsNumber(json.pump_2)
    /\ (json.pump_1.v > 0 \/ json.pump_2.v > 0)

pumps_on_accepts(json) ==
    /\ cJSON_IsObject(json)
    /\ cJSON_IsNumber(json.pump_1)
    /\ cJSON_IsNumber(json.pump_2)
    /\ json.pump_1.v > 0
    /\ json.pump_2.v > 0

runPumps_first(delay1) ==
    [pump_1 |-> PUMP_ON, pump_2 |-> PUMP_OFF, pump_delay |-> make_delay(delay1), id |-> 0]

\* Mutant: the second message is not switched over to pump 2.
runPumps_second_mut(d2) ==
    [pump_1 |-> PUMP_ON, pump_2 |-> PUMP_OFF, pump_delay |-> make_delay(d2), id |-> 0]

runPumps_second(d2) ==
    [pump_1 |-> PUMP_OFF, pump_2 |-> PUMP_ON, pump_delay |-> make_delay(d2), id |-> 0]

pumps_on_handler(body) ==
    /\ http_pc = "idle"
    /\ triggersLeft > 0
    /\ triggersLeft' = triggersLeft - 1
    /\ lastRun' = body
    /\ IF pumps_on_accepts(body)
       THEN /\ SetChannel(SendPumpEvent(Channel, runPumps_first(body.pump_1.v), "run1", -1))
            /\ http_pc' = "send2"
            /\ delay2' = body.pump_2.v
       ELSE UNCHANGED << pumpEvents, sendLog, http_pc, delay2 >>
    /\ UNCHANGED << env, now, timerEvents, storeVars, taskVars, submitsLeft,
                    resp, seen >>

runPumps_send2 ==
    /\ http_pc = "send2"
    /\ SetChannel(SendPumpEvent(Channel, runPumps_second(delay2), "run2", -1))
    /\ http_pc' = "idle"
    /\ delay2' = 0
    /\ UNCHANGED << env, now, timerEvents, storeVars, taskVars,
                    submitsLeft, triggersLeft, lastRun, resp, seen >>

(***************************************************************************)
(* get_cron_data_handler: serialize_cron_specs reads cron_specs slot by     *)
(* slot, with no lock, in the httpd task; the timer service task can run   *)
(* between two reads.  The response is sent when all slots are read.       *)
(***************************************************************************)
serialize_cron_data(cron_spec) ==
    [pump_num |-> Num(cron_spec.pump_num), state |-> Num(cron_spec.state),
     hour |-> Num(cron_spec.hour), minute |-> Num(cron_spec.minute),
     pump_on_time |-> Num(cron_spec.pump_on_time),
     last_ran_day |-> Num(cron_spec.last_ran_day),
     last_ran_hour |-> Num(cron_spec.last_ran_hour),
     last_ran_minute |-> Num(cron_spec.last_ran_minute)]

\* The whole table as serialize_cron_specs would give it in one go.
Serialized(specs) == [i \in 1 .. MAX_CRON_SPECS |-> serialize_cron_data(specs[i - 1])]

QueryUnchanged ==
    UNCHANGED << env, now, pumpEvents, timerEvents, sendLog, storeVars, taskVars,
                 delay2, submitsLeft, lastRun >>

get_cron_data_handler ==
    /\ http_pc = "idle"
    /\ triggersLeft > 0
    /\ triggersLeft' = triggersLeft - 1
    /\ http_pc' = "query"
    /\ resp' = << >>
    /\ seen' = {cron_specs}
    /\ QueryUnchanged

\* Mutant: reading a slot also takes the waiting cron spec off the queue.
serialize_cron_specs_mut ==
    /\ http_pc = "query"
    /\ Len(resp) < MAX_CRON_SPECS
    /\ resp' = Append(resp, serialize_cron_data(cron_specs[Len(resp)]))
    /\ timerEvents' = IF timerEvents # << >> THEN Tail(timerEvents) ELSE timerEvents
    /\ UNCHANGED << env, now, pumpEvents, sendLog, storeVars, taskVars,
                    delay2, submitsLeft, lastRun, http_pc, triggersLeft, seen >>

\* One iteration of the loop of serialize_cron_specs.
serialize_cron_specs ==
    /\ http_pc = "query"
    /\ Len(resp) < MAX_CRON_SPECS
    /\ resp' = Append(resp, serialize_cron_data(cron_specs[Len(resp)]))
    /\ UNCHANGED << http_pc, triggersLeft, seen >>
    /\ QueryUnchanged

get_cron_data_send ==
    /\ http_pc = "query"
    /\ Len(resp) = MAX_CRON_SPECS
    /\ http_pc' = "idle"
    /\ resp' = << >>
    /\ seen' = {}
    /\ UNCHANGED triggersLeft
    /\ QueryUnchanged

(***************************************************************************)
(* pumpTimerCb, one step per callback.  The time is read; at most one cron *)
(* spec is taken from timerEventsHandle and stored at next_cron_spec; then *)
(* the loop looks at the slots in index order.  A scan state st holds what *)
(* the loop reads and writes: the table, the queue with its history, and   *)
(* the per-slot histories.                                                 *)
(***************************************************************************)
StoreSpec(specs, n, c) == [specs EXCEPT ![n] = c]

\* Mutant: the cursor stops at the last slot instead of wrapping.
NextCronSpec_mut(n) == IF n + 1 < MAX_CRON_SPECS THEN n + 1 ELSE n

NextCronSpec(n) == (n + 1) % MAX_CRON_SPECS

TimeMatches(ti, c) == ti.tm_hour = c.hour /\ ti.tm_min = c.minute

AlreadyRan(ti, c) == c.last_ran_day = ti.tm_mday

CronMessage(c) ==
    [pump_1 |-> IF c.pump_num = 0 THEN PUMP_ON ELSE IF c.pump_num = 1 THEN PUMP_OFF ELSE 0,
     pump_2 |-> IF c.pump_num = 0 THEN PUMP_OFF ELSE IF c.pump_num = 1 THEN PUMP_ON ELSE 0,
     pump_delay |-> make_delay(c.pump_on_time),
     id |-> 0]

MarkRan(c, ti) ==
    [c EXCEPT !.last_ran_day = ti.tm_mday,
              !.last_ran_hour = ti.tm_hour,
              !.last_ran_minute = ti.tm_min]

\* The entry would send a message in a scan at time ti.
Due(ti, c) == TimeMatches(ti, c) /\ ~AlreadyRan(ti, c)

\* History record of one stored cron spec: how many specs were waiting in the
\* queue, and whether the new entry and the entry it replaces were due.
InsertRecord(ti, new, old) ==
    [pending |-> Len(timerEvents), newDue |-> Due(ti, new), oldDue |-> Due(ti, old)]

\* Mutant: the callback reads the front of the queue and leaves it there.
Updated_mut ==
    IF timerEvents # << >>
    THEN [events  |-> timerEvents,
          specs   |-> StoreSpec(cron_specs, next_cron_spec, Head(timerEvents)),
          next    |-> NextCronSpec(next_cron_spec),
          applied |-> Append(applied, Head(timerEvents)),
          fired   |-> [fired EXCEPT ![next_cron_spec] = << >>],
          skipped |-> [skipped EXCEPT ![next_cron_spec] = {}],
          inserts |-> Append(inserts, InsertRecord(localtime_r(now), Head(timerEvents),
                                                   cron_specs[next_cron_spec]))]
    ELSE [events  |-> timerEvents,
          specs   |-> cron_specs,
          next    |-> next_cron_spec,
          applied |-> applied,
          fired   |-> fired,
          skipped |-> skipped,
          inserts |-> inserts]

\* What the callback's receive leaves: the table, cursor, queue and histories.
Updated ==
    IF timerEvents # << >>
    THEN [events  |-> Tail(timerEvents),
          specs   |-> StoreSpec(cron_specs, next_cron_spec, Head(timerEvents)),
          next    |-> NextCronSpec(next_cron_spec),
          applied |-> Append(applied, Head(timerEvents)),
          fired   |-> [fired EXCEPT ![next_cron_spec] = << >>],
          skipped |-> [skipped EXCEPT ![next_cron_spec] = {}],
          inserts |-> Append(inserts, InsertRecord(localtime_r(now), Head(timerEvents),
                                                   cron_specs[next_cron_spec]))]
    ELSE [events  |-> timerEvents,
          specs   |-> cron_specs,
          next    |-> next_cron_spec,
          applied |-> applied,
          fired   |-> fired,
          skipped |-> skipped,
          inserts |-> inserts]

\* Mutant: the entry is marked as run only when its message was queued.
ScanSlot_mut(k, ti, st) ==
    IF TimeMatches(ti, st.specs[k])
    THEN IF AlreadyRan(ti, st.specs[k])
         THEN [st EXCEPT !.skipped[k] = @ \cup {ti.day}]
         ELSE [st EXCEPT
                 !.ch = SendPumpEvent(@, CronMessage(st.specs[k]), "cron", k),
                 !.specs[k] = IF QueueFull(st.ch.q) THEN @ ELSE MarkRan(@, ti),
                 !.fired[k] = Append(@, [day |-> ti.day, room |-> ~QueueFull(st.ch.q)])]
    ELSE st

\* One iteration of the loop, for slot k.
ScanSlot(k, ti, st) ==
    IF TimeMatches(ti, st.specs[k])
    THEN IF AlreadyRan(ti, st.specs[k])
         THEN [st EXCEPT !.skipped[k] = @ \cup {ti.day}]
         ELSE [st EXCEPT
                 !.ch = SendPumpEvent(@, CronMessage(st.specs[k]), "cron", k),
                 !.specs[k] = MarkRan(@, ti),
                 !.fired[k] = Append(@, [day |-> ti.day, room |-> ~QueueFull(st.ch.q)])]
    ELSE st

RECURSIVE Scan(_, _, _)
Scan(k, ti, st) ==
    IF k >= MAX_CRON_SPECS THEN st ELSE Scan(k + 1, ti, ScanSlot(k, ti, st))

\* Mutant: the loop runs on the table as it was, and the received cron spec
\* is stored after it.
Scanned_mut ==
    LET r == Scan(0, localtime_r(now),
                  [specs |-> cron_specs, ch |-> Channel,
                   fired |-> Updated.fired, skipped |-> Updated.skipped])
    IN  [r EXCEPT !.specs = IF timerEvents # << >>
                            THEN StoreSpec(@, next_cron_spec, Head(timerEvents))
                            ELSE @]

Scanned ==
    Scan(0, localtime_r(now),
         [specs |-> Updated.specs, ch |-> Channel,
          fired |-> Updated.fired, skipped |-> Updated.skipped])

pumpTimerCb ==
    /\ timerEvents' = Updated.events
    /\ next_cron_spec' = Updated.next
    /\ applied' = Updated.applied
    /\ cron_specs' = Scanned.specs
    /\ SetChannel(Scanned.ch)
    /\ fired' = Scanned.fired
    /\ skipped' = Scanned.skipped
    /\ inserts' = Updated.inserts
    /\ seen' = IF http_pc = "query" THEN seen \cup {Scanned.specs} ELSE seen
    /\ UNCHANGED << env, now, taskVars, httpVars >>

(***************************************************************************)
(* pumpRunnerTaskFunction.                                                 *)
(***************************************************************************)
\* Mutant: a message for pump 1 alone sends the task back to its delay, with
\* no hold and no pumps_off.
AfterPumpOne_mut(message) == IF message.pump_2 = PUMP_ON THEN "two_1" ELSE "delay"

AfterPumpOne(message) == IF message.pump_2 = PUMP_ON THEN "two_1" ELSE "hold"

AfterReceive(message) ==
    IF message.pump_1 = PUMP_ON THEN "one_1" ELSE AfterPumpOne(message)

TaskUnchanged ==
    UNCHANGED << env, now, timerEvents, sendLog, storeVars, httpVars, seen >>

task_delay ==
    /\ task_pc = "delay"
    /\ task_pc' = "receive"
    /\ UNCHANGED << pumpEvents, pumpMessage, duty, serviced >>
    /\ TaskUnchanged

\* Mutant: the receive takes the newest message of the queue, not the oldest.
task_receive_mut ==
    /\ task_pc = "receive"
    /\ pumpEvents # << >>
    /\ pumpMessage' = pumpEvents[Len(pumpEvents)]
    /\ pumpEvents' = SubSeq(pumpEvents, 1, Len(pumpEvents) - 1)
    /\ serviced' = Append(serviced, pumpEvents[Len(pumpEvents)].id)
    /\ task_pc' = AfterReceive(pumpEvents[Len(pumpEvents)])
    /\ UNCHANGED duty
    /\ TaskUnchanged

task_receive ==
    /\ task_pc = "receive"
    /\ pumpEvents # << >>
    /\ pumpMessage' = Head(pumpEvents)
    /\ pumpEvents' = Tail(pumpEvents)
    /\ serviced' = Append(serviced, Head(pumpEvents).id)
    /\ task_pc' = AfterReceive(Head(pumpEvents))
    /\ UNCHANGED duty
    /\ TaskUnchanged

task_timeout ==
    /\ task_pc = "receive"
    /\ pumpEvents = << >>
    /\ task_pc' = "delay"
    /\ UNCHANGED << pumpEvents, pumpMessage, duty, serviced >>
    /\ TaskUnchanged

TaskWrite(at, written, to) ==
    /\ task_pc = at
    /\ duty' = written
    /\ task_pc' = to
    /\ UNCHANGED << pumpEvents, pumpMessage, serviced >>
    /\ TaskUnchanged

task_one_1 == TaskWrite("one_1", pump_one_on_1(duty), "one_2")

task_one_2 == TaskWrite("one_2", pump_one_on_2(duty), AfterPumpOne(pumpMessage))

task_two_1 == TaskWrite("two_1", pump_two_on_1(duty), "two_2")

task_two_2 == TaskWrite("two_2", pump_two_on_2(duty), "hold")

\* Mutant: the hold waits on the queue and takes a message that arrives.
task_hold_mut ==
    /\ task_pc = "hold"
    /\ IF pumpEvents # << >>
       THEN /\ pumpMessage' = Head(pumpEvents)
            /\ pumpEvents' = Tail(pumpEvents)
            /\ serviced' = Append(serviced, Head(pumpEvents).id)
            /\ task_pc' = AfterReceive(Head(pumpEvents))
       ELSE /\ task_pc' = "off_1"
            /\ UNCHANGED << pumpEvents, pumpMessage, serviced >>
    /\ UNCHANGED duty
    /\ TaskUnchanged

\* vTaskDelay(pumpMessage.pump_delay).
task_hold ==
    /\ task_pc = "hold"
    /\ task_pc' = "off_1"
    /\ UNCHANGED << pumpEvents, pumpMessage, duty, serviced >>
    /\ TaskUnchanged

task_off_1 == TaskWrite("off_1", pumps_off_1(duty), "off_2")

task_off_2 == TaskWrite("off_2", pumps_off_2(duty), "delay")

(***************************************************************************)
(* The wall clock moves forward, by any amount (time passes, or SNTP       *)
(* steps the clock).                                                      *)
(***************************************************************************)
ClockAdvance ==
    /\ \E d \in 0 .. (env.days - 1), t \in env.tods :
          /\ Later(now, [day |-> d, tod |-> t])
          /\ now' = [day |-> d, tod |-> t]
    /\ UNCHANGED << env, pumpEvents, timerEvents, sendLog, storeVars,
                    taskVars, httpVars, seen >>

AddCron ==
    /\ submitsLeft > 0
    /\ \E body \in env.cronBodies[submitsLeft] : add_cron_handler(body)

PumpsOn == \E body \in env.runBodies : pumps_on_handler(body)

Next ==
    \/ AddCron
    \/ PumpsOn
    \/ runPumps_send2
    \/ get_cron_data_handler
    \/ serialize_cron_specs
    \/ get_cron_data_send
    \/ pumpTimerCb
    \/ task_delay
    \/ task_receive
    \/ task_timeout
    \/ task_one_1
    \/ task_one_2
    \/ task_two_1
    \/ task_two_2
    \/ task_hold
    \/ task_off_1
    \/ task_off_2
    \/ ClockAdvance

Spec == Init /\ [][Next]_vars

SpecRuns == InitRuns /\ [][Next]_vars

SpecCalendar == InitCalendar /\ [][Next]_vars

SpecEvict == InitEvict /\ [][Next]_vars

SpecReplace == InitReplace /\ [][Next]_vars

SpecMidnight == InitMidnight /\ [][Next]_vars

SpecDelays == InitDelays /\ [][Next]_vars

SpecTwins == InitTwins /\ [][Next]_vars

SpecPumps == InitPumps /\ [][Next]_vars

\* The steps of pumpRunnerTaskFunction.
PumpRunner ==
    \/ task_delay
    \/ task_receive
    \/ task_timeout
    \/ task_one_1
    \/ task_one_2
    \/ task_two_1
    \/ task_two_2
    \/ task_hold
    \/ task_off_1
    \/ task_off_2

\* The pump runner is scheduled fairly: its delays end, and it runs whenever it
\* is ready (it has the highest priority of the three contexts that matter).
SpecLive == InitPumps /\ [][Next]_vars /\ WF_vars(PumpRunner)

(***************************************************************************)
(* Properties.                                                             *)
(***************************************************************************)
On(p) == duty[p] # 0

TaskIdle == task_pc \in {"delay", "receive"}

\* C2: in every reachable state, between any two steps of any of the tasks
\* (also between the two hardware writes of pump_one_on and pump_two_on),
\* pump A and pump B are not both On.
C2_NeverBothOn == ~(On(0) /\ On(1))

\* The pump runner is between the two writes of pump_one_on, pump A already On,
\* in a cycle that follows a cycle of pump B.
C2_Witness ==
    /\ task_pc = "one_2"
    /\ On(0)
    /\ Len(serviced) >= 2
    /\ sendLog[serviced[Len(serviced) - 1]].msg.pump_2 = PUMP_ON

\* C3: whenever the pump runner is idle (in its 2 s delay or waiting on the
\* queue), and so whenever it has finished a RunRequest, both pumps are Off.
C3_IdleMeansOff == TaskIdle => (~On(0) /\ ~On(1))

\* The pump runner has finished a request that had pump B On.
C3_Witness ==
    /\ task_pc = "delay"
    /\ Len(serviced) >= 1
    /\ pumpMessage.pump_2 = PUMP_ON
    /\ pumpMessage.pump_delay > 0

\* C4: after k cron specs e_0 .. e_(k-1) have been stored, the cursor is at
\* k mod N, slot (j mod N) holds the latest e_j of that residue, and a slot no
\* e_j has reached still holds its initial value.
C4_SlotHoldsLatest ==
    /\ next_cron_spec = Len(applied) % MAX_CRON_SPECS
    /\ \A j \in 1 .. Len(applied) :
          j + MAX_CRON_SPECS > Len(applied) =>
             Config(cron_specs[(j - 1) % MAX_CRON_SPECS]) = Config(applied[j])
    /\ \A s \in Slots : s >= Len(applied) => Config(cron_specs[s]) = Config(ZeroCron)

\* N+1 different cron specs have been stored: the first is in no slot, the last
\* N are in their slots, the newest in slot 0.
C4_Witness ==
    /\ Len(applied) = MAX_CRON_SPECS + 1
    /\ \A s \in Slots : Config(cron_specs[s]) # Config(applied[1])
    /\ Config(cron_specs[0]) = Config(applied[MAX_CRON_SPECS + 1])
    /\ \A j \in 2 .. MAX_CRON_SPECS : Config(cron_specs[j - 1]) = Config(applied[j])

\* C10: a /pumps_on request whose two durations are numbers, one of them zero
\* or negative, sends nothing: the queue and the send history are unchanged,
\* runPumps is not entered and no pump output changes.
C10_NonPositiveRejected ==
    [][\A body \in env.runBodies :
          ( /\ pumps_on_handler(body)
            /\ cJSON_IsObject(body)
            /\ cJSON_IsNumber(body.pump_1)
            /\ cJSON_IsNumber(body.pump_2)
            /\ (body.pump_1.v <= 0 \/ body.pump_2.v <= 0) )
          => /\ pumpEvents' = pumpEvents
             /\ sendLog' = sendLog
             /\ http_pc' = "idle"
             /\ duty' = duty]_vars

\* A request with durations 1 and 0 has been handled and nothing was ever sent.
C10_Witness ==
    /\ lastRun = RunObject(Num(1), Num(0))
    /\ triggersLeft = 0
    /\ sendLog = << >>
    /\ http_pc = "idle"

(***************************************************************************)
(* What a step adds to the send history, and the order of service.         *)
(***************************************************************************)
NewSends == SubSeq(sendLog', Len(sendLog) + 1, Len(sendLog'))

Ids(q) == [k \in 1 .. Len(q) |-> q[k].id]

Range(f) == {f[x] : x \in DOMAIN f}

\* Ids of the messages that were queued, in the order of their service.
ServiceOrder == serviced \o Ids(pumpEvents)

Position(seq, x) == CHOOSE k \in 1 .. Len(seq) : seq[k] = x

SendAttempted(k) ==
    \E n \in 1 .. Len(NewSends) : NewSends[n].by = "cron" /\ NewSends[n].slot = k

FiredDays(k) == {fired[k][n].day : n \in DOMAIN fired[k]}

TimesFired(k, d) == Cardinality({n \in DOMAIN fired[k] : fired[k][n].day = d})

\* The calendar day the entry of a slot last sent a message, -1 when it never did.
LastRunDate(f) == IF f = << >> THEN -1 ELSE f[Len(f)].day

\* C1: for an entry that stays in its slot, on every calendar day on which a
\* callback saw the entry's hour and minute, exactly one message was sent for
\* it (by the first such callback, the later ones sending none).
C1_ExactlyOnePerDay ==
    \A k \in Slots : \A d \in FiredDays(k) \cup skipped[k] : TimesFired(k, d) = 1

\* C5: a send on the full pumpEvents queue leaves the queue as it was and the
\* sender goes on to its next step; what a step adds to the queue is exactly
\* the messages sent while there was room, and a message sent while there was
\* none is never in the queue and never received by the pump runner.
C5_FullSendDrops ==
    [][ /\ Len(sendLog') > Len(sendLog) =>
            LET HadRoom(r) == r.room
                kept == SelectSeq(NewSends, HadRoom)
            IN  /\ pumpEvents' = pumpEvents \o [k \in 1 .. Len(kept) |-> kept[k].msg]
                /\ NewSends[1].by = "run1" => http_pc' = "send2"
                /\ NewSends[1].by = "run2" => http_pc' = "idle"
        /\ \A n \in 1 .. Len(sendLog') :
              ~sendLog'[n].room => n \notin Range(serviced') \cup Range(Ids(pumpEvents'))
      ]_vars

\* A message of runPumps and a message of pumpTimerCb were sent on the full
\* queue, and the pump runner has since emptied the queue: it received exactly
\* the messages that had room.
C5_Witness ==
    /\ \E n \in DOMAIN sendLog : ~sendLog[n].room /\ sendLog[n].by = "cron"
    /\ \E n \in DOMAIN sendLog : ~sendLog[n].room /\ sendLog[n].by = "run2"
    /\ pumpEvents = << >>
    /\ task_pc = "delay"
    /\ Range(serviced) = {n \in DOMAIN sendLog : sendLog[n].room}

\* C6: an entry that matches in a callback and has not run today has its
\* last_ran_day, last_ran_hour and last_ran_minute set to the current time
\* whether or not its message found room in the queue; and an entry whose
\* message of today was dropped sends no message in a later callback of today.
C6_DroppedCountsAsRun ==
    [][pumpTimerCb =>
         \A k \in Slots :
            LET ti == localtime_r(now)
                c  == Updated.specs[k]
            IN  /\ (TimeMatches(ti, c) /\ ~AlreadyRan(ti, c)) =>
                      /\ cron_specs'[k].last_ran_day = ti.tm_mday
                      /\ cron_specs'[k].last_ran_hour = ti.tm_hour
                      /\ cron_specs'[k].last_ran_minute = ti.tm_min
                /\ (\E n \in DOMAIN Updated.fired[k] :
                       Updated.fired[k][n].day = ti.day /\ ~Updated.fired[k][n].room)
                   => ~SendAttempted(k)
      ]_vars

\* The message of an entry was dropped, the entry is marked as run on that
\* day, and a later callback of the same day has skipped it.
C6_Witness ==
    \E k \in Slots : \E n \in DOMAIN fired[k] :
       /\ ~fired[k][n].room
       /\ fired[k][n].day \in skipped[k]
       /\ cron_specs[k].last_ran_day = localtime_r([day |-> fired[k][n].day, tod |-> 2]).tm_mday
       /\ now.day = fired[k][n].day

\* The two sends of one runPumps call: positions in sendLog.
RunPairs ==
    {p \in (DOMAIN sendLog) \X (DOMAIN sendLog) :
        /\ p[1] < p[2]
        /\ sendLog[p[1]].by = "run1"
        /\ sendLog[p[2]].by = "run2"
        /\ \A n \in (p[1] + 1) .. (p[2] - 1) : sendLog[n].by = "cron"}

LatestPair(p) == \A r \in RunPairs : r[1] <= p[1]

\* C7 as stated: every runPumps call leaves both its messages in the queue, the
\* second right behind the first, no other message between them.
C7_BothQueuedAdjacent ==
    \A p \in RunPairs :
       /\ sendLog[p[1]].room
       /\ sendLog[p[2]].room
       /\ \A n \in (p[1] + 1) .. (p[2] - 1) : ~sendLog[n].room

\* C7 amended: runPumps(d1, d2) makes two sends, {A:On, B:Off, d1} and then
\* {A:Off, B:On, d2}; each is queued exactly when the queue has room at that
\* moment; only messages of pumpTimerCb can be sent between the two; and when
\* both are queued the first is served before the second.  (lastRun is the
\* body of the call whose pair is the latest one while the httpd task is idle;
\* the history is never rewritten, so every pair is compared with its body.)
C7_TwoSendsInOrder ==
    \A p \in RunPairs :
       LET m1 == sendLog[p[1]].msg
           m2 == sendLog[p[2]].msg
       IN  /\ m1.pump_1 = PUMP_ON /\ m1.pump_2 = PUMP_OFF
           /\ m2.pump_1 = PUMP_OFF /\ m2.pump_2 = PUMP_ON
           /\ (LatestPair(p) /\ http_pc = "idle" /\ pumps_on_accepts(lastRun)) =>
                 /\ m1.pump_delay = make_delay(lastRun.pump_1.v)
                 /\ m2.pump_delay = make_delay(lastRun.pump_2.v)
           /\ sendLog[p[1]].room <=> p[1] \in Range(ServiceOrder)
           /\ sendLog[p[2]].room <=> p[2] \in Range(ServiceOrder)
           /\ (sendLog[p[1]].room /\ sendLog[p[2]].room) =>
                 Position(ServiceOrder, p[1]) < Position(ServiceOrder, p[2])

\* Both messages of a runPumps call were queued with a message of pumpTimerCb
\* queued between them, and the pump runner has served all three.
C7_Witness ==
    \E p \in RunPairs :
       /\ sendLog[p[1]].room
       /\ sendLog[p[2]].room
       /\ \E n \in (p[1] + 1) .. (p[2] - 1) : sendLog[n].room
       /\ p[2] \in Range(serviced)
       /\ task_pc = "delay"

AllCronBodies == UNION {env.cronBodies[n] : n \in DOMAIN env.cronBodies}

\* A body that is JSON but no object with five numeric fields.
InvalidCron(json) ==
    /\ json.kind # "nojson"
    /\ ~( /\ json.kind = "object"
          /\ json.pump_num.t = "num"
          /\ json.state.t = "num"
          /\ json.pump_on_time.t = "num"
          /\ json.hour.t = "num"
          /\ json.minute.t = "num" )

\* C8: an invalid or incomplete /add_cron request puts nothing on the
\* timerEvents queue, and every cron spec that is stored in the table arrives
\* with last_ran_day = -1.
C8_InvalidNeverQueued ==
    [][ /\ \A body \in AllCronBodies :
              (add_cron_handler(body) /\ InvalidCron(body)) => timerEvents' = timerEvents
        /\ Len(applied') > Len(applied) => applied'[Len(applied')].last_ran_day = -1
      ]_vars

\* C9: in every callback and for every slot, a message is sent for the slot
\* exactly when the slot's hour and minute are the current ones and the
\* calendar day on which the slot's entry last sent is not the current day.
C9_SendIffDueToday ==
    [][pumpTimerCb =>
         \A k \in Slots :
            LET ti == localtime_r(now)
            IN  SendAttempted(k) <=>
                   /\ TimeMatches(ti, Updated.specs[k])
                   /\ LastRunDate(Updated.fired[k]) # ti.day
      ]_vars

(***************************************************************************)
(* Who writes the table, and what one callback takes from the queue.       *)
(***************************************************************************)
\* A step of get_cron_data_handler: its start, one read, or its send.
QueryStep ==
    /\ http_pc = "query" \/ http_pc' = "query"
    /\ resp' # resp \/ http_pc' # http_pc

\* C11: a step that is not a timer callback (a step of the cron query, of
\* add_cron_handler, of pumps_on_handler and runPumps, or of the pump runner)
\* leaves all slots of cron_specs and next_cron_spec as they were, and a step
\* of the cron query also leaves both queues as they were.
C11_OnlyCallbackWritesStore ==
    [][ /\ ~pumpTimerCb => (cron_specs' = cron_specs /\ next_cron_spec' = next_cron_spec)
        /\ QueryStep => (timerEvents' = timerEvents /\ pumpEvents' = pumpEvents)
      ]_vars

\* A cron spec was stored, a run-now request was made and its first message
\* served, and the query has read all slots while the second message waits.
C11_Witness ==
    /\ http_pc = "query"
    /\ Len(resp) = MAX_CRON_SPECS
    /\ resp = Serialized(cron_specs)
    /\ Len(applied) = 1
    /\ cron_specs[0].hour = 7
    /\ \E n \in DOMAIN sendLog : sendLog[n].by = "run2" /\ sendLog[n].room
    /\ Len(serviced) >= 1
    /\ pumpEvents # << >>

\* The cron specs that were queued, in the order of their sends.
Accepted == applied \o timerEvents

\* C12: a timer callback takes the front item of timerEvents, if there is one,
\* and nothing else, and stores it in exactly one slot (the one at the cursor),
\* however many items wait; over the callbacks the items are stored in the
\* order in which they were queued.
C12_OneUpdatePerTick ==
    [][ /\ pumpTimerCb =>
              IF timerEvents = << >>
              THEN /\ timerEvents' = << >>
                   /\ next_cron_spec' = next_cron_spec
                   /\ \A s \in Slots : Config(cron_specs'[s]) = Config(cron_specs[s])
              ELSE /\ timerEvents' = Tail(timerEvents)
                   /\ next_cron_spec' = (next_cron_spec + 1) % MAX_CRON_SPECS
                   /\ Config(cron_specs'[next_cron_spec]) = Config(Head(timerEvents))
                   /\ \A s \in Slots \ {next_cron_spec} :
                         Config(cron_specs'[s]) = Config(cron_specs[s])
                   /\ applied' = Append(applied, Head(timerEvents))
        /\ \/ Accepted' = Accepted
           \/ /\ Len(Accepted') = Len(Accepted) + 1
              /\ SubSeq(Accepted', 1, Len(Accepted)) = Accepted
      ]_vars

\* Two different cron specs waited in the queue at one callback; that callback
\* stored the first in slot 0 and a later one stored the second in slot 1.
C12_Witness ==
    /\ Len(inserts) = 2
    /\ inserts[1].pending = 2
    /\ inserts[2].pending = 1
    /\ Config(applied[1]) # Config(applied[2])
    /\ Config(cron_specs[0]) = Config(applied[1])
    /\ Config(cron_specs[1]) = Config(applied[2])

\* C13: the response of the cron query, once all slots are read, equals the
\* whole of cron_specs as it was at one instant during the query: no response
\* mixes slots read before a timer callback with slots read after it.
C13_SnapshotAtOneInstant ==
    (http_pc = "query" /\ Len(resp) = MAX_CRON_SPECS) =>
       \E specs \in seen : resp = Serialized(specs)

(***************************************************************************)
(* One cycle of the pump runner at a time.                                 *)
(***************************************************************************)
\* The pump runner is between a receive and the end of its pumps_off.
InCycle == ~TaskIdle

IsPrefix(a, b) == Len(a) <= Len(b) /\ SubSeq(b, 1, Len(a)) = a

\* C14: the pump runner receives only when it is in no cycle, with both pumps
\* off; from the receive to the end of pumps_off no step takes anything from
\* pumpEvents (what is sent meanwhile stays queued behind what was queued),
\* the message being served is not replaced, the pump outputs are changed by
\* no step but the cycle's own writes, and not at all during the hold.
C14_OneCycleAtATime ==
    [][ /\ InCycle =>
              /\ serviced' = serviced
              /\ pumpMessage' = pumpMessage
              /\ IsPrefix(pumpEvents, pumpEvents')
              /\ task_pc' = task_pc => duty' = duty
              /\ task_pc = "hold" => duty' = duty
        /\ serviced' # serviced =>
              /\ task_pc = "receive"
              /\ ~On(0) /\ ~On(1)
              /\ pumpEvents' = Tail(pumpEvents)
      ]_vars

\* The pump runner holds a pump on for its first message while the queue is
\* full of messages that all found room: at least one of them was sent after
\* the receive, during the cycle, and waits.
C14_Witness ==
    /\ task_pc = "hold"
    /\ On(0) \/ On(1)
    /\ Len(serviced) = 1
    /\ Len(pumpEvents) = PUMP_EV_NUM
    /\ Len(sendLog) = PUMP_EV_NUM + 1
    /\ \A n \in DOMAIN sendLog : sendLog[n].room

(***************************************************************************)
(* Several entries due in one callback.                                    *)
(***************************************************************************)
\* The slots whose hour and minute are those of time ti, after the receive.
Matching(ti) == {k \in Slots : TimeMatches(ti, Updated.specs[k])}

\* C15: when two or more slots have the current hour and minute in one timer
\* callback and none of their entries has sent on the current calendar day,
\* the callback sends exactly one message per such slot, in ascending slot
\* order, each built from its own entry, and sets the last_ran_* fields of
\* each such slot to the current time.
C15_AllMatchingFire ==
    [][pumpTimerCb =>
         LET ti == localtime_r(now)
             M  == Matching(ti)
         IN  ( /\ Cardinality(M) >= 2
               /\ \A k \in M : LastRunDate(Updated.fired[k]) # ti.day )
             => /\ Len(NewSends) = Cardinality(M)
                /\ \A i \in DOMAIN NewSends :
                      /\ NewSends[i].by = "cron"
                      /\ NewSends[i].slot \in M
                      /\ NewSends[i].msg.pump_delay =
                            make_delay(Updated.specs[NewSends[i].slot].pump_on_time)
                /\ \A i, j \in DOMAIN NewSends :
                      i < j => NewSends[i].slot < NewSends[j].slot
                /\ \A k \in M :
                      /\ cron_specs'[k].last_ran_day = ti.tm_mday
                      /\ cron_specs'[k].last_ran_hour = ti.tm_hour
                      /\ cron_specs'[k].last_ran_minute = ti.tm_min
      ]_vars

\* C16: the message a timer callback sends for an entry is {pump_1: PUMP_ON,
\* pump_2: PUMP_OFF} when the entry's pump_num is 0 and {pump_1: PUMP_OFF,
\* pump_2: PUMP_ON} for every other pump_num, with a pump_delay that lasts the
\* entry's pump_on_time seconds, whatever the entry's state field is.
C16_MessageByPumpIndex ==
    [][pumpTimerCb =>
         \A i \in DOMAIN NewSends :
            LET c == Updated.specs[NewSends[i].slot]
                m == NewSends[i].msg
            IN  /\ m.pump_1 = IF c.pump_num = 0 THEN PUMP_ON ELSE PUMP_OFF
                /\ m.pump_2 = IF c.pump_num = 0 THEN PUMP_OFF ELSE PUMP_ON
                /\ m.pump_delay * portTICK_PERIOD_MS = 1000 * c.pump_on_time
      ]_vars

(***************************************************************************)
(* Progress of the pump runner.                                            *)
(***************************************************************************)
\* Message n was received and its cycle is over.
Completed(n) ==
    /\ n \in Range(serviced)
    /\ InCycle => serviced[Len(serviced)] # n

\* C17: with the pump runner scheduled fairly, every message that was queued
\* on pumpEvents is eventually received and its cycle eventually ends, and a
\* pump that is on is eventually off, whatever the handlers and the timer
\* callback do meanwhile.  (At most MaxSends messages are ever sent.)
C17_CyclesComplete ==
    /\ [](Len(sendLog) <= MaxSends)
    /\ \A n \in 1 .. MaxSends :
          (Len(sendLog) >= n /\ sendLog[n].room) ~> Completed(n)
    /\ \A p \in {0, 1} : On(p) ~> ~On(p)

\* Three messages were queued, by runPumps and by the timer callback, and the
\* pump runner has completed the cycles of all three, the last with pump 2.
C17_Witness ==
    /\ Len(serviced) = 3
    /\ \A n \in Range(serviced) : Completed(n)
    /\ \E n \in DOMAIN sendLog : sendLog[n].by = "cron" /\ n \in Range(serviced)
    /\ pumpMessage.pump_2 = PUMP_ON
    /\ pumpEvents = << >>
    /\ ~On(0) /\ ~On(1)

(***************************************************************************)
(* The timerEvents queue at its capacity, and the order of store and scan. *)
(* In SpecEvict the client sends FillBody(1), FillBody(2), ... in turn,    *)
(* all different; in SpecReplace, ReplaceBody(1), ReplaceBody(2), ...      *)
(***************************************************************************)
\* The cron specs the client of SpecEvict has sent so far.
Submitted ==
    {Config(parse_cron_data(FillBody(k))) :
        k \in 1 .. (MAX_CRON_SPECS + MaxExtra - submitsLeft)}

\* Those of them that were not queued.
Dropped == Submitted \ {Config(Accepted[i]) : i \in DOMAIN Accepted}

\* C18: timerEvents never holds more than PUMP_EV_NUM items; an /add_cron
\* request handled while it is full returns at once (the httpd task is idle
\* again after the step) and leaves the queue as it was; and a cron spec that
\* was dropped in this way is in no slot of the table, then or later.
C18_FullSubmitDropped ==
    /\ [](/\ Len(timerEvents) <= PUMP_EV_NUM
          /\ \A s \in Slots : Config(cron_specs[s]) \notin Dropped)
    /\ [][\A body \in AllCronBodies :
             ( /\ submitsLeft > 0
               /\ body \in env.cronBodies[submitsLeft]
               /\ add_cron_handler(body)
               /\ QueueFull(timerEvents) ) =>
                /\ timerEvents' = timerEvents
                /\ http_pc' = "idle"
                /\ Config(parse_cron_data(body)) \in Dropped'
         ]_vars

\* A cron spec was dropped at the full queue; the callbacks have since stored
\* every queued spec, the table has been filled and a slot reused.
C18_Witness ==
    /\ Dropped # {}
    /\ submitsLeft = 0
    /\ timerEvents = << >>
    /\ Len(applied) = MAX_CRON_SPECS + MaxExtra - Cardinality(Dropped)
    /\ Len(applied) >= PUMP_EV_NUM + 1

\* C19: in a timer callback that receives a cron spec, the spec is stored
\* before the loop runs: when its hour and minute are the current ones, a
\* message built from it is sent for its slot in this same callback; and no
\* message is sent for the entry it replaced, even if that entry was due.
C19_InsertBeforeScan ==
    [][(pumpTimerCb /\ timerEvents # << >>) =>
         LET ti   == localtime_r(now)
             new  == Head(timerEvents)
             k    == next_cron_spec
             mine == {i \in DOMAIN NewSends : NewSends[i].slot = k}
         IN  /\ TimeMatches(ti, new) => Cardinality(mine) = 1
             /\ ~TimeMatches(ti, new) => mine = {}
             /\ \A i \in mine :
                   NewSends[i].msg = [CronMessage(new) EXCEPT !.id = NewSends[i].msg.id]
             /\ Config(cron_specs'[k]) = Config(new)
      ]_vars

\* The table was full; a callback at 07:31 stored a spec due at 07:31 in slot
\* 0, whose entry was due at 07:31 too and had not run: the only message ever
\* sent for slot 0 is that of the new spec.
C19_Witness ==
    /\ Len(inserts) = MAX_CRON_SPECS + 1
    /\ inserts[MAX_CRON_SPECS + 1].newDue
    /\ inserts[MAX_CRON_SPECS + 1].oldDue
    /\ \E n \in DOMAIN sendLog :
          /\ sendLog[n].by = "cron"
          /\ sendLog[n].slot = 0
          /\ sendLog[n].msg.pump_delay = make_delay(applied[MAX_CRON_SPECS + 1].pump_on_time)
    /\ \A n \in DOMAIN sendLog :
          sendLog[n].by = "cron" =>
             sendLog[n].msg.pump_delay # make_delay(applied[1].pump_on_time)

\* The slots that a stored cron spec has been written to.
WrittenSlots == {(j - 1) % MAX_CRON_SPECS : j \in DOMAIN applied}

\* C20: every message a timer callback has sent was sent for a slot that a
\* cron spec from timerEvents had been stored in; a slot still holding its
\* zero initial value causes no send, at 00:00 or at any other time.
C20_DefaultSlotsSilent ==
    \A n \in DOMAIN sendLog :
       sendLog[n].by = "cron" => sendLog[n].slot \in WrittenSlots

(***************************************************************************)
(* The hold of a message.  In SpecDelays there is one cron spec and one    *)
(* run-now request, so the seconds a message was built from are still in   *)
(* the table and in lastRun.                                               *)
(***************************************************************************)
\* The duration in seconds that send n of the history was given.
SecondsOf(n) ==
    IF sendLog[n].by = "cron" THEN cron_specs[sendLog[n].slot].pump_on_time
    ELSE IF sendLog[n].by = "run1" THEN lastRun.pump_1.v
    ELSE lastRun.pump_2.v

\* C21: every message that was queued on pumpEvents, by runPumps or by the
\* timer callback, has a pump_delay above zero that is the ticks of the seconds
\* it was built from (100 ticks per second, nothing lost to 32-bit
\* arithmetic), and the pump runner never holds for a pump_delay of zero or less.
C21_PositiveHold ==
    /\ \A n \in DOMAIN sendLog :
          sendLog[n].room =>
             /\ sendLog[n].msg.pump_delay > 0
             /\ sendLog[n].msg.pump_delay % 100 = 0
             /\ sendLog[n].msg.pump_delay \div 100 = SecondsOf(n)
    /\ task_pc = "hold" => pumpMessage.pump_delay > 0

(***************************************************************************)
(* The order of service.                                                   *)
(***************************************************************************)
\* The ids of the messages that found room, in the order of their sends.
Enqueued ==
    LET HadRoom(n) == sendLog[n].room
    IN  SelectSeq([n \in 1 .. Len(sendLog) |-> n], HadRoom)

\* C22: the messages the pump runner has received, followed by those still
\* in pumpEvents, are exactly the messages that were queued, each once, in
\* the order of their sends, whether runPumps or the timer callback sent
\* them: no message is received before one that was queued earlier, none is
\* received twice and none is passed over.
C22_FifoService ==
    /\ serviced \o Ids(pumpEvents) = Enqueued
    /\ \A i \in DOMAIN pumpEvents : pumpEvents[i] = sendLog[pumpEvents[i].id].msg
    /\ InCycle => pumpMessage = sendLog[serviced[Len(serviced)]].msg

\* Messages of runPumps and of the timer callback were queued in turn, one
\* send found the queue full, and the pump runner has received all the queued
\* ones, a message of the timer callback before a later one of runPumps.
C22_Witness ==
    /\ Len(serviced) >= 3
    /\ pumpEvents = << >>
    /\ \E n \in DOMAIN sendLog : ~sendLog[n].room /\ n < serviced[Len(serviced)]
    /\ \E i, j \in DOMAIN serviced :
          /\ i < j
          /\ sendLog[serviced[i]].by = "cron"
          /\ sendLog[serviced[j]].by = "run1"

====
